---- MODULE Spec2Model ----
(***************************************************************************)
(* Plant monitoring dashboard (src/src/App.js): the polling loop of the    *)
(* App component.  The state is the component's hook state; the actions    *)
(* are the mount effect, the interval timer, the Refresh / Retry buttons,  *)
(* the two continuations of the async fetchData (after `await fetch` and   *)
(* after `await response.json()`), the alert dismissal and the unmount.    *)
(***************************************************************************)
EXTENDS Integers, Sequences, FiniteSets, TLC

\* ------------------------------------------------------------------ bounds
\* Number of fetchData invocations one behaviour dispatches.
MaxReq == 2
\* Longest reading array the endpoint returns.
MaxBatch == 2

\* ------------------------------------------------------- JavaScript values
\* A measurement field of a reading: a number, null, or missing (undefined).
Num(n) == [k |-> "num", v |-> n]
JsNull == [k |-> "null", v |-> 0]
Undefined == [k |-> "undef", v |-> 0]

\* The number NaN, as arithmetic on a missing field produces it.
NaN == [k |-> "nan", v |-> 0]

\* ToNumber(undefined) is NaN, ToNumber(null) is +0.
IsNaN(x) == x.k \in {"undef", "nan"}
ToNumber(x) == IF x.k = "num" THEN x.v ELSE 0

\* The numeric + and - (an operand that converts to NaN gives NaN).
JsAdd(a, b) == IF IsNaN(a) \/ IsNaN(b) THEN NaN ELSE Num(ToNumber(a) + ToNumber(b))
JsSub(a, b) == IF IsNaN(a) \/ IsNaN(b) THEN NaN ELSE Num(ToNumber(a) - ToNumber(b))

\* The relational operators: any comparison with NaN is false.
JsLt(a, b) == ~IsNaN(a) /\ ~IsNaN(b) /\ ToNumber(a) < ToNumber(b)
JsGt(a, b) == ~IsNaN(a) /\ ~IsNaN(b) /\ ToNumber(a) > ToNumber(b)

\* The null of the hook state `error` (its other values are message strings).
Null == "<null>"

\* ----------------------------------------------------------------- readings
Reading(ts, soil, temp, hum) ==
    [timestamp |-> ts, device_id |-> "plant-1", soil_moisture |-> soil,
     temperature |-> temp, humidity |-> hum, light_lux |-> Num(500)]

\* Readings the endpoint serves: a dry one, a healthy one, and a hot and
\* dry-air one that shares the healthy one's timestamp.
DryReading == Reading(1, Num(25), Num(20), Num(50))
FineReading == Reading(2, Num(50), Num(20), Num(50))
HotReading == Reading(2, Num(50), Num(35), Num(35))
Readings == {DryReading, FineReading, HotReading}

RECURSIVE SeqsUpTo(_, _)
SeqsUpTo(S, n) ==
    IF n = 0 THEN {<<>>}
    ELSE LET shorter == SeqsUpTo(S, n - 1)
         IN shorter \cup {Append(s, x) : s \in shorter, x \in S}

Batches == SeqsUpTo(Readings, MaxBatch)

\* ------------------------------------------------------------ JSON payloads
\* The value of an object's `body` property.  A string is described by what
\* JSON.parse makes of it: invalid text, a non-array value, or an array.
BodyValue(t, valid, isArr, items, empty) ==
    [t |-> t, valid |-> valid, isArr |-> isArr, items |-> items, empty |-> empty]

Bodies ==
    {BodyValue("undefined", FALSE, FALSE, <<>>, FALSE),   \* no `body` property
     BodyValue("string", FALSE, FALSE, <<>>, TRUE),       \* body: ""
     BodyValue("string", FALSE, FALSE, <<>>, FALSE),      \* body: "oops"
     BodyValue("string", TRUE, FALSE, <<>>, FALSE),       \* body: "{\"a\":1}"
     BodyValue("number", FALSE, FALSE, <<>>, FALSE),      \* body: 5
     BodyValue("object", FALSE, FALSE, <<>>, FALSE)}      \* body: {}
    \cup {BodyValue("string", TRUE, TRUE, b, FALSE) : b \in Batches}

\* A decoded JSON value: an array of readings, null, a number, a string, or
\* an object (of which only the `body` property matters).
JsonValue(t, items, body) == [t |-> t, items |-> items, body |-> body]
AbsentBody == BodyValue("undefined", FALSE, FALSE, <<>>, FALSE)

Jsons ==
    {JsonValue("array", b, AbsentBody) : b \in Batches}
    \cup {JsonValue(t, <<>>, AbsentBody) : t \in {"null", "number", "string"}}
    \cup {JsonValue("object", <<>>, b) : b \in Bodies}

\* No decoded value (the invocation never reached line 41).
NoJson == JsonValue("none", <<>>, AbsentBody)

\* Array.isArray(json).
IsArray(j) == j.t = "array"
\* json.body: reading a property of null throws a TypeError; a number or a
\* string has no `body` property.
PropertyReadThrows(j) == j.t = "null"
GetBody(j) == IF j.t = "object" THEN j.body ELSE AbsentBody
\* The truthiness test of `else if (json.body)`: undefined and "" are falsy.
Truthy(b) == b.t \in {"number", "object"} \/ (b.t = "string" /\ ~b.empty)
\* JSON.parse(json.body) first converts its argument to a string: a number
\* gives its digits, which parse to a number; an object gives
\* "[object Object]", which is a SyntaxError.
ParseThrows(b) == b.t = "object" \/ (b.t = "string" /\ ~b.valid)
ParsedIsArray(b) == b.t = "string" /\ b.valid /\ b.isArr
ParsedItems(b) == b.items

\* ------------------------------------------------------------------- sort
\* The comparator (a, b) => b.timestamp - a.timestamp.
Compare(a, b) == b.timestamp - a.timestamp

\* Mutant of SortDesc: the batch is stored in arrival order.
KeepArrivalOrder(s) == s

\* Mutant of Insert: an element is placed before the earlier elements it
\* ties with, which reverses ties.
RECURSIVE InsertBeforeTies(_, _)
InsertBeforeTies(s, x) ==
    IF s = <<>> THEN <<x>>
    ELSE IF Compare(Head(s), x) < 0 THEN <<Head(s)>> \o InsertBeforeTies(Tail(s), x)
    ELSE <<x>> \o s

\* Array.prototype.sort is stable: an element goes after every earlier
\* element the comparator does not place after it.
RECURSIVE Insert(_, _)
Insert(s, x) ==
    IF s = <<>> THEN <<x>>
    ELSE IF Compare(Head(s), x) <= 0 THEN <<Head(s)>> \o Insert(Tail(s), x)
    ELSE <<x>> \o s

RECURSIVE SortDesc(_)
SortDesc(s) ==
    IF s = <<>> THEN <<>>
    ELSE Insert(SortDesc(SubSeq(s, 1, Len(s) - 1)), s[Len(s)])

\* ----------------------------------------------------------------- alerts
SoilLowMessage == "Soil moisture is LOW! Plant needs water."
TempHighMessage == "Temperature is HIGH!"
TempLowMessage == "Temperature is LOW!"
HumidityLowMessage == "Humidity is LOW!"

\* The `alerts` array checkAlerts builds for a reading.
Alerts(latest) ==
    (IF JsLt(latest.soil_moisture, Num(30)) THEN <<SoilLowMessage>> ELSE <<>>)
    \o (IF JsGt(latest.temperature, Num(30)) THEN <<TempHighMessage>> ELSE <<>>)
    \o (IF JsLt(latest.temperature, Num(15)) THEN <<TempLowMessage>> ELSE <<>>)
    \o (IF JsLt(latest.humidity, Num(40)) THEN <<HumidityLowMessage>> ELSE <<>>)

\* alerts.join(' | ')
RECURSIVE Join(_)
Join(a) ==
    IF a = <<>> THEN ""
    ELSE IF Len(a) = 1 THEN a[1]
    ELSE a[1] \o " | " \o Join(Tail(a))

\* sortedData[0]: the first element, or undefined (here <<>>) when empty.
First(s) == IF s = <<>> THEN <<>> ELSE <<s[1]>>

\* Mutant of checkAlerts: the else branch (setShowAlert(false)) is missing.
checkAlertsNeverHides(st, latest) ==
    IF latest = <<>> THEN st
    ELSE IF Len(Alerts(latest[1])) > 0
         THEN [st EXCEPT !.alertMessage = Join(Alerts(latest[1])), !.showAlert = TRUE]
         ELSE st

\* Mutant of checkAlerts: an alert whose text is already on record is not
\* shown again.
checkAlertsOncePerText(st, latest) ==
    IF latest = <<>> THEN st
    ELSE IF Len(Alerts(latest[1])) > 0
         THEN IF Join(Alerts(latest[1])) = st.alertMessage THEN st
              ELSE [st EXCEPT !.alertMessage = Join(Alerts(latest[1])), !.showAlert = TRUE]
         ELSE [st EXCEPT !.showAlert = FALSE]

\* Mutant of checkAlerts: the banner is shown without setAlertMessage.
checkAlertsKeepsText(st, latest) ==
    IF latest = <<>> THEN st
    ELSE IF Len(Alerts(latest[1])) > 0
         THEN [st EXCEPT !.showAlert = TRUE]
         ELSE [st EXCEPT !.showAlert = FALSE]

\* checkAlerts(latest) on the hook state st.
checkAlerts(st, latest) ==
    IF latest = <<>> THEN st
    ELSE IF Len(Alerts(latest[1])) > 0
         THEN [st EXCEPT !.alertMessage = Join(Alerts(latest[1])), !.showAlert = TRUE]
         ELSE [st EXCEPT !.showAlert = FALSE]

\* ------------------------------------------------------------ error messages
\* error.message of the values the try block can throw.
FetchFailedMessage == "Failed to fetch"
SyntaxErrorMessage == "Unexpected token in JSON"
TypeErrorMessage == "Cannot read properties of null (reading 'body')"
\* `HTTP error! status: ${response.status}`
HttpErrorMessage(status) == "HTTP error! status: " \o ToString(status)

\* Status codes the endpoint answers with; response.ok is 200..299.
Statuses == {200, 404, 500}
ResponseOk(status) == status >= 200 /\ status <= 299

\* ---------------------------------------------------------------- state
VARIABLES
    data,           \* useState([]): the working set
    loading,        \* useState(true)
    error,          \* useState(null): Null or a message
    lastUpdate,     \* useState(null): 0 for null, else the time of new Date()
    showAlert,      \* useState(false)
    alertMessage,   \* useState('')
    view,           \* "initial" (rendered, effect not yet run), "mounted", "unmounted"
    interval,       \* TRUE while the setInterval timer is set
    reqs,           \* the fetchData invocations in dispatch order: where each
                    \* is suspended ("idle" before its call)
    last,           \* the invocation that ran last and the locals it saw:
                    \* what the network delivered, `response.status`, `json`
    unhandled,      \* TRUE once a promise of fetchData was rejected
    call,           \* the render-time function applied last, with its arguments
    returned        \* what that function returned

vars == <<data, loading, error, lastUpdate, showAlert, alertMessage, view,
          interval, reqs, last, unhandled, call, returned>>

\* No render-time function has been applied.
NoCall == [fn |-> "none"]
NoResult == [fn |-> "none"]

ReqIds == 1..MaxReq

Dispatched == {i \in ReqIds : reqs[i] # "idle"}
InFlight == {i \in ReqIds : reqs[i] \in {"fetch", "json"}}

\* A logical clock for new Date(): every step of every invocation advances it.
Progress(pc) == CASE pc = "idle" -> 0 [] pc = "fetch" -> 1 [] pc = "json" -> 2 [] pc = "done" -> 3
RECURSIVE ClockUpTo(_, _)
ClockUpTo(r, n) == IF n = 0 THEN 0 ELSE ClockUpTo(r, n - 1) + Progress(r[n])
Clock(r) == ClockUpTo(r, MaxReq)

\* The hook state the continuations of fetchData write; `thrown` is the
\* message of the exception in flight inside the invocation, if any.
Hooks ==
    [data |-> data, loading |-> loading, error |-> error, lastUpdate |-> lastUpdate,
     showAlert |-> showAlert, alertMessage |-> alertMessage, thrown |-> Null]

\* The setters take effect; an exception that leaves fetchData rejects its
\* promise, which nothing handles.
SetHooks(result) ==
    \E st \in {result} :
    /\ data' = st.data
    /\ loading' = st.loading
    /\ error' = st.error
    /\ lastUpdate' = st.lastUpdate
    /\ showAlert' = st.showAlert
    /\ alertMessage' = st.alertMessage
    /\ unhandled' = (unhandled \/ st.thrown # Null)

\* ------------------------------------------------------------- fetchData
\* Mutant of Ingest: the success branch forgets setError(null).
IngestKeepsError(st, items, now) ==
    LET sortedData == SortDesc(items)
    IN checkAlerts([st EXCEPT !.data = sortedData, !.lastUpdate = now],
                   First(sortedData))

\* Lines 44-48 and 52-56: sort, setData, setLastUpdate, setError(null),
\* checkAlerts(sortedData[0]).
Ingest(st, items, now) ==
    LET sortedData == SortDesc(items)
    IN checkAlerts([st EXCEPT !.data = sortedData, !.lastUpdate = now, !.error = Null],
                   First(sortedData))

\* An exception raised inside the try block.
Throw(st, message) == [st EXCEPT !.thrown = message]

\* Mutant of Catch: the error screen is shown by blanking the working set.
CatchBlanksData(st) ==
    IF st.thrown # Null
    THEN [st EXCEPT !.error = st.thrown, !.thrown = Null, !.data = <<>>]
    ELSE st

\* Mutant of Catch: the handler records the message and rethrows.
CatchRethrows(st) ==
    IF st.thrown # Null THEN [st EXCEPT !.error = st.thrown] ELSE st

\* The catch block: setError(error.message).
Catch(st) ==
    IF st.thrown # Null THEN [st EXCEPT !.error = st.thrown, !.thrown = Null] ELSE st

\* Mutant of Finally: setLoading(false) sits at the end of the try block, so
\* it is skipped when the invocation ends with an error recorded.
FinallySkippedOnError(st) ==
    IF st.error # Null THEN st ELSE [st EXCEPT !.loading = FALSE]

\* The finally block: setLoading(false).
Finally(st) == [st EXCEPT !.loading = FALSE]

\* Lines 43-58 on a decoded value j.
HandleJson(st, j, now) ==
    IF IsArray(j) THEN Ingest(st, j.items, now)
    ELSE IF PropertyReadThrows(j) THEN Throw(st, TypeErrorMessage)
    ELSE IF Truthy(GetBody(j))
         THEN IF ParseThrows(GetBody(j)) THEN Throw(st, SyntaxErrorMessage)
              ELSE IF ParsedIsArray(GetBody(j)) THEN Ingest(st, ParsedItems(GetBody(j)), now)
              ELSE st
    ELSE st

\* Calling fetchData(): the invocation runs up to `await fetch(...)`.
Dispatch ==
    /\ Cardinality(Dispatched) < MaxReq
    /\ reqs' = [reqs EXCEPT ![Cardinality(Dispatched) + 1] = "fetch"]

\* What an invocation saw when it ran last.
Saw(i, got, status, j) == [id |-> i, got |-> got, status |-> status, json |-> j]

Init ==
    /\ data = <<>>
    /\ loading = TRUE
    /\ error = Null
    /\ lastUpdate = 0
    /\ showAlert = FALSE
    /\ alertMessage = ""
    /\ view = "initial"
    /\ interval = FALSE
    /\ reqs = [i \in ReqIds |-> "idle"]
    /\ last = Saw(0, "nothing", 0, NoJson)
    /\ unhandled = FALSE
    /\ call = NoCall
    /\ returned = NoResult

\* The mount effect: fetchData(); setInterval(fetchData, 5000).
Mount ==
    /\ view = "initial"
    /\ view' = "mounted"
    /\ Dispatch
    /\ interval' = TRUE
    /\ UNCHANGED <<data, loading, error, lastUpdate, showAlert, alertMessage, last,
                   unhandled>>
    /\ UNCHANGED <<call, returned>>

\* The interval timer fires.
Tick ==
    /\ interval
    /\ Dispatch
    /\ UNCHANGED <<data, loading, error, lastUpdate, showAlert, alertMessage, view,
                   interval, last, unhandled>>
    /\ UNCHANGED <<call, returned>>

\* The Retry Connection / Refresh buttons, rendered once loading is false.
ClickRefresh ==
    /\ view = "mounted"
    /\ ~loading
    /\ Dispatch
    /\ UNCHANGED <<data, loading, error, lastUpdate, showAlert, alertMessage, view,
                   interval, last, unhandled>>
    /\ UNCHANGED <<call, returned>>

\* `await fetch(...)` rejects: catch, finally.
FetchRejects(i) ==
    /\ reqs[i] = "fetch"
    /\ reqs' = [reqs EXCEPT ![i] = "done"]
    /\ last' = Saw(i, "rejected", 0, NoJson)
    /\ SetHooks(Finally(Catch(Throw(Hooks, FetchFailedMessage))))
    /\ UNCHANGED <<view, interval>>
    /\ UNCHANGED <<call, returned>>

\* `await fetch(...)` resolves with a response: a non-2xx status is thrown
\* and caught; otherwise the invocation suspends at `await response.json()`.
FetchResolves(i) ==
    /\ reqs[i] = "fetch"
    /\ \E status \in Statuses :
         /\ last' = Saw(i, "response", status, NoJson)
         /\ IF ResponseOk(status)
            THEN /\ reqs' = [reqs EXCEPT ![i] = "json"]
                 /\ UNCHANGED <<data, loading, error, lastUpdate, showAlert,
                                alertMessage, unhandled>>
            ELSE /\ reqs' = [reqs EXCEPT ![i] = "done"]
                 /\ SetHooks(Finally(Catch(Throw(Hooks, HttpErrorMessage(status)))))
    /\ UNCHANGED <<view, interval>>
    /\ UNCHANGED <<call, returned>>

\* `await response.json()` rejects: the body is not JSON.
JsonRejects(i) ==
    /\ reqs[i] = "json"
    /\ reqs' = [reqs EXCEPT ![i] = "done"]
    /\ last' = Saw(i, "badjson", 200, NoJson)
    /\ SetHooks(Finally(Catch(Throw(Hooks, SyntaxErrorMessage))))
    /\ UNCHANGED <<view, interval>>
    /\ UNCHANGED <<call, returned>>

\* `await response.json()` resolves with the decoded value.
JsonResolves(i) ==
    /\ reqs[i] = "json"
    /\ reqs' = [reqs EXCEPT ![i] = "done"]
    /\ \E j \in Jsons :
         /\ last' = Saw(i, "json", 200, j)
         /\ SetHooks(Finally(Catch(HandleJson(Hooks, j, Clock(reqs')))))
    /\ UNCHANGED <<view, interval>>
    /\ UNCHANGED <<call, returned>>

\* The dismiss button of the alert banner, rendered on the main screen.
DismissAlert ==
    /\ view = "mounted"
    /\ ~loading /\ error = Null /\ data # <<>> /\ showAlert
    /\ showAlert' = FALSE
    /\ UNCHANGED <<data, loading, error, lastUpdate, alertMessage, view, interval,
                   reqs, last, unhandled>>
    /\ UNCHANGED <<call, returned>>

\* Mutant of Unmount: the cleanup forgets clearInterval.
UnmountLeavesTimer ==
    /\ view = "mounted"
    /\ view' = "unmounted"
    /\ UNCHANGED <<data, loading, error, lastUpdate, showAlert, alertMessage, reqs,
                   last, unhandled, interval, call, returned>>

\* The effect's cleanup: clearInterval(interval).
Unmount ==
    /\ view = "mounted"
    /\ view' = "unmounted"
    /\ interval' = FALSE
    /\ UNCHANGED <<data, loading, error, lastUpdate, showAlert, alertMessage, reqs,
                   last, unhandled>>
    /\ UNCHANGED <<call, returned>>

Next ==
    \/ Mount
    \/ Tick
    \/ ClickRefresh
    \/ \E i \in ReqIds : FetchRejects(i)
    \/ \E i \in ReqIds : FetchResolves(i)
    \/ \E i \in ReqIds : JsonRejects(i)
    \/ \E i \in ReqIds : JsonResolves(i)
    \/ DismissAlert
    \/ Unmount

Spec == Init /\ [][Next]_vars

TypeOK ==
    /\ data \in Batches
    /\ loading \in BOOLEAN
    /\ lastUpdate \in 0..(3 * MaxReq)
    /\ showAlert \in BOOLEAN
    /\ view \in {"initial", "mounted", "unmounted"}
    /\ interval \in BOOLEAN

\* ------------------------------------------------------- claim vocabulary
\* Invocation i runs to its end in this step.
Completes(i) == reqs[i] # "done" /\ reqs'[i] = "done" /\ last'.id = i

\* A later-dispatched invocation has already completed.
Stale(i) == \E k \in ReqIds : k > i /\ reqs[k] = "done"

\* The reading sequence the specification's Normalizer extracts from a
\* decoded value: the array itself, or the array its `body` string decodes to.
Normalized(j) ==
    IF j.t = "array" THEN j.items
    ELSE IF j.t = "object" /\ j.body.t = "string" /\ j.body.valid /\ j.body.isArr
         THEN j.body.items
    ELSE <<>>

\* What an invocation saw was a successful fetch of a non-empty batch.
SawBatch(l) == l.got = "json" /\ Normalized(l.json) # <<>>

\* C1: once a later-dispatched refresh has completed successfully, the
\* completion of an earlier-dispatched one that returns a batch of its own
\* does not replace the working set: it stays the later call's batch.
C1_StaleCompletionKeepsWorkingSet ==
    [][\A i \in ReqIds :
         (Completes(i) /\ SawBatch(last') /\ last.id > i /\ reqs[last.id] = "done"
          /\ SawBatch(last))
         => data' = data]_vars

\* C2: at most one fetch is in flight in every reachable state.
C2_AtMostOneInFlight == Cardinality(InFlight) <= 1

\* What an invocation saw was one of the failures of the error taxonomy: a
\* transport error, a non-2xx status, a body that is not JSON, or a nested
\* `body` string that is not JSON.
SawFailure(l) ==
    \/ l.got = "rejected"
    \/ l.got = "response" /\ ~(l.status \in 200..299)
    \/ l.got = "badjson"
    \/ /\ l.got = "json"
       /\ l.json.t = "object"
       /\ l.json.body.t = "string" /\ ~l.json.body.empty /\ ~l.json.body.valid

SawEmptyResult(l) ==
    /\ l.got = "json"
    /\ \/ l.json.t = "array"
       \/ l.json.t = "object" /\ l.json.body.t = "string" /\ l.json.body.valid
          /\ l.json.body.isArr
    /\ Normalized(l.json) = <<>>

\* C4: a refresh that completes with a payload normalizing to an empty
\* sequence leaves the working set as it was.
C4_EmptyResultKeepsWorkingSet ==
    [][\A i \in ReqIds : (Completes(i) /\ SawEmptyResult(last')) => data' = data]_vars

\* C5: a refresh that completes with a data-empty payload leaves the last
\* error as it was: none stays none, a recorded error stays recorded.
C5_EmptyResultKeepsError ==
    [][\A i \in ReqIds : (Completes(i) /\ SawEmptyResult(last')) => error' = error]_vars

\* A decoded payload of none of the accepted shapes, as the claim lists them:
\* null, a number, a string, an object without `body`, an object whose `body`
\* is not a string, an object whose `body` decodes to a non-sequence.
SawOtherShape(l) ==
    /\ l.got = "json"
    /\ \/ l.json.t \in {"null", "number", "string"}
       \/ l.json.t = "object" /\ l.json.body.t \in {"undefined", "number", "object"}
       \/ l.json.t = "object" /\ l.json.body.t = "string" /\ l.json.body.valid
          /\ ~l.json.body.isArr

\* C6: a refresh that decodes a payload of none of the accepted shapes
\* records no error and leaves working set, last error and alert untouched.
C6_OtherShapeChangesNothing ==
    [][\A i \in ReqIds :
         (Completes(i) /\ SawOtherShape(last'))
         => /\ data' = data
            /\ error' = error
            /\ showAlert' = showAlert
            /\ alertMessage' = alertMessage]_vars

\* C7: a stale completion, one that ends after a later-dispatched refresh
\* has completed and applied its batch, changes none of the derived state:
\* last error, last-update time, alert text and alert visibility.
C7_StaleCompletionChangesNothing ==
    [][\A i \in ReqIds :
         (Completes(i) /\ Stale(i) /\ last.id > i /\ SawBatch(last))
         => /\ error' = error
            /\ lastUpdate' = lastUpdate
            /\ showAlert' = showAlert
            /\ alertMessage' = alertMessage]_vars

\* C8: the working set is sorted by timestamp, latest first, in every
\* reachable state.
C8_WorkingSetSortedDescending ==
    \A i \in 1..(Len(data) - 1) : data[i].timestamp >= data[i + 1].timestamp

\* A batch that arrived oldest first is on display latest first.
C8_Witness ==
    /\ last.got = "json" /\ reqs[last.id] = "done"
    /\ Len(Normalized(last.json)) >= 2
    /\ Normalized(last.json)[1].timestamp < Normalized(last.json)[2].timestamp
    /\ Len(data) >= 2
    /\ data[1].timestamp > data[2].timestamp

\* s and t hold the same readings, each as often.
SameReadings(s, t) ==
    /\ Len(s) = Len(t)
    /\ \A r \in Readings :
         Cardinality({i \in 1..Len(s) : s[i] = r}) = Cardinality({i \in 1..Len(t) : t[i] = r})

\* C9: a refresh that completes successfully with a non-empty batch clears
\* the last error and makes that batch the working set.
C9_SuccessClearsErrorAndIngests ==
    [][\A i \in ReqIds :
         (Completes(i) /\ SawBatch(last'))
         => /\ error' = Null
            /\ SameReadings(data', Normalized(last'.json))]_vars

\* A batch was ingested by the second refresh, after the first one ended,
\* and no error is on record.
C9_Witness ==
    /\ SawBatch(last) /\ last.id = 2
    /\ reqs[1] = "done" /\ reqs[2] = "done"
    /\ error = Null
    /\ SameReadings(data, Normalized(last.json))

\* C10: no failure stops polling or escapes fetchData: no promise of
\* fetchData is ever rejected, the timer stays set while the view is mounted,
\* and with an error on record the timer and the retry button can still
\* dispatch a refresh.
C10_FailuresNeverStopPolling ==
    /\ ~unhandled
    /\ view = "mounted" => interval
    /\ (view = "mounted" /\ error # Null /\ Cardinality(Dispatched) < MaxReq)
           => (ENABLED Tick) /\ (ENABLED ClickRefresh)

\* A refresh failed and the mounted view is about to poll again.
C10_Witness ==
    /\ SawFailure(last) /\ reqs[last.id] = "done"
    /\ error # Null
    /\ view = "mounted" /\ interval
    /\ Cardinality(Dispatched) < MaxReq

\* C11: the first refresh is dispatched by the mount effect, before any timer
\* tick (no timer is set until then); the timer is set for as long as the
\* view is mounted; once the view is discarded the timer is cleared and no
\* refresh is dispatched any more.
C11_StartupThenTimerUntilUnmount ==
    [][/\ (Dispatched = {} /\ Dispatched' # {})
              => (view = "initial" /\ ~interval /\ view' = "mounted" /\ interval')
       /\ (view' = "mounted") => interval'
       /\ (view' = "unmounted") => ~interval'
       /\ (view = "unmounted") => Dispatched' = Dispatched]_vars

\* The view was discarded after its startup refresh, with invocations left
\* that the timer could still have dispatched.
C11_Witness ==
    /\ view = "unmounted" /\ ~interval
    /\ reqs[1] # "idle"
    /\ Cardinality(Dispatched) < MaxReq

\* C13: after a refresh completion that ingests a non-empty batch the alert
\* is visible exactly when the evaluation of the new most-recent reading is
\* non-empty, and a visible alert shows that evaluation's text.
C13_AlertFollowsLatestReading ==
    [][\A i \in ReqIds :
         (Completes(i) /\ SawBatch(last'))
         => /\ showAlert' <=> (Alerts(data'[1]) # <<>>)
            /\ showAlert' => alertMessage' = Join(Alerts(data'[1]))]_vars

\* A batch whose latest reading raises no alert was ingested after an
\* earlier cycle had shown one: the alert is hidden.
C13_Witness ==
    /\ SawBatch(last) /\ reqs[last.id] = "done"
    /\ data # <<>> /\ data = SortDesc(Normalized(last.json))
    /\ Alerts(data[1]) = <<>>
    /\ alertMessage # ""
    /\ ~showAlert

\* C14: a dismissal hides the alert; a hidden alert becomes visible only at
\* a refresh completion that ingests a batch whose evaluation is non-empty
\* (so it stays hidden across failed and empty-result cycles), and every such
\* completion makes it visible, also when the text is the dismissed one.
C14_DismissedUntilNextAlert ==
    [][/\ DismissAlert => ~showAlert'
       /\ (~showAlert /\ showAlert')
              => \E i \in ReqIds :
                     Completes(i) /\ SawBatch(last') /\ Alerts(data'[1]) # <<>>
       /\ \A i \in ReqIds :
              (Completes(i) /\ SawBatch(last') /\ Alerts(data'[1]) # <<>>)
              => showAlert']_vars

\* The alert of the reading on display was dismissed while a refresh is
\* still on its way.
C14_Witness ==
    /\ data # <<>> /\ Alerts(data[1]) # <<>>
    /\ alertMessage = Join(Alerts(data[1]))
    /\ ~showAlert
    /\ InFlight # {}

\* The readings of s that carry timestamp t, in the order s has them.
TiesOf(s, t) == SelectSeq(s, LAMBDA r : r.timestamp = t)

\* C18: the working set ingested from a non-empty input sequence is a
\* permutation of the input in which readings of equal timestamp keep their
\* input order.
C18_IngestIsStablePermutation ==
    [][\A i \in ReqIds :
         (Completes(i) /\ SawBatch(last'))
         => /\ SameReadings(data', Normalized(last'.json))
            /\ \A r \in Readings :
                   TiesOf(data', r.timestamp) = TiesOf(Normalized(last'.json), r.timestamp)]_vars

\* Two different readings of one timestamp were ingested and are on display
\* in their input order.
C18_Witness ==
    /\ SawBatch(last) /\ reqs[last.id] = "done"
    /\ Len(Normalized(last.json)) >= 2
    /\ Normalized(last.json)[1].timestamp = Normalized(last.json)[2].timestamp
    /\ Normalized(last.json)[1] # Normalized(last.json)[2]
    /\ data = Normalized(last.json)

\* C20: whenever the alert is marked visible the working set is non-empty
\* and the alert text is the evaluation of its most recent reading (index 0).
C20_VisibleAlertIsOfLatestReading ==
    showAlert => (data # <<>> /\ alertMessage = Join(Alerts(data[1])))

\* The dashboard branch of render draws the alert banner: not loading, no
\* error, some data, and showAlert set.
BannerRendered ==
    /\ view = "mounted"
    /\ ~loading
    /\ error = Null
    /\ data # <<>>
    /\ showAlert

\* The banner render draws is always that of the most recent reading (the
\* part of C20 the code does satisfy).
RenderedBannerIsOfLatestReading ==
    BannerRendered => alertMessage = Join(Alerts(data[1]))

\* Whenever the working set is non-empty a visible alert is that of its most
\* recent reading.
VisibleAlertOverReadingsIsOfLatest ==
    (showAlert /\ data # <<>>) => alertMessage = Join(Alerts(data[1]))

\* C21: loading is true initially and until an invocation of fetchData has
\* completed, is false from the first completion on whatever that invocation
\* saw (a batch, an empty result, another shape or a failure), and no later
\* refresh, timer tick, click or unmount sets it back to true.
C21_LoadingUntilFirstCompletion ==
    /\ loading = TRUE
    /\ [][/\ (\A i \in ReqIds : Completes(i) => ~loading')
          /\ (~loading => ~loading')
          /\ (loading /\ ~loading') => \E i \in ReqIds : Completes(i)]_vars

\* The first invocation failed, and a later one was dispatched and is under
\* way, with loading still false.
C21_Witness ==
    /\ ~loading
    /\ SawFailure(last) /\ last.id = 1 /\ reqs[1] = "done"
    /\ \E i \in ReqIds : i > 1 /\ reqs[i] \in {"fetch", "json"}

\* ------------------------------------------------- render-time functions
\* The functions the component applies to a reading or to the working set
\* (checkAlerts' rule evaluation, getTrend, calculateStats, exportToCSV) are
\* exercised on their own: RenderInit draws the arguments, one action per
\* function applies it.

\* Values of a measurement field around the alert thresholds, null and
\* missing included.
SoilValues == {Undefined, JsNull, Num(29), Num(30), Num(31)}
TempValues == {Undefined, JsNull, Num(14), Num(15), Num(30), Num(31)}
HumidityValues == {Undefined, JsNull, Num(39), Num(40)}
AlertReadings ==
    {Reading(1, s, t, h) : s \in SoilValues, t \in TempValues, h \in HumidityValues}

AlertCalls == {[fn |-> "checkAlerts", reading |-> r] : r \in AlertReadings}

\* Lines 17-21 of checkAlerts: the rules applied to a reading.
EvaluateAlerts ==
    /\ call.fn = "checkAlerts"
    /\ returned = NoResult
    /\ returned' = [fn |-> "checkAlerts", alerts |-> Alerts(call.reading)]
    /\ UNCHANGED <<data, loading, error, lastUpdate, showAlert, alertMessage, view,
                   interval, reqs, last, unhandled, call>>

\* A measurement is present when it is a number: neither null nor missing.
Present(x) == x.k = "num"

\* The messages the specification's rule table yields for a reading.
ExpectedAlerts(r) ==
    (IF Present(r.soil_moisture) /\ r.soil_moisture.v < 30
     THEN <<"Soil moisture is LOW! Plant needs water.">> ELSE <<>>)
    \o (IF Present(r.temperature) /\ r.temperature.v > 30
        THEN <<"Temperature is HIGH!">> ELSE <<>>)
    \o (IF Present(r.temperature) /\ r.temperature.v < 15
        THEN <<"Temperature is LOW!">> ELSE <<>>)
    \o (IF Present(r.humidity) /\ r.humidity.v < 40
        THEN <<"Humidity is LOW!">> ELSE <<>>)

\* C12: the alert evaluation of a reading yields exactly the messages of the
\* rules that hold, in table order; an absent (missing or null) field
\* contributes none.
C12_AlertsExactlyTriggeredRules ==
    returned.fn = "checkAlerts" => returned.alerts = ExpectedAlerts(call.reading)

\* Longest working set the render-time functions are applied to.
MaxSetLen == 2

Fields == {"soil_moisture", "temperature", "humidity", "light_lux"}

\* Values of the field under study: missing, null, and numbers 0, 1 and 2
\* apart.
FieldValues == {Undefined, JsNull, Num(10), Num(11), Num(12)}

\* Working sets in which one field varies: latest first, as fetchData
\* stores them.
FieldReading(ts, field, v) == [Reading(ts, Num(50), Num(20), Num(50)) EXCEPT ![field] = v]
FieldSets(field) ==
    {[i \in 1..Len(vs) |-> FieldReading(Len(vs) + 1 - i, field, vs[i])] :
        vs \in SeqsUpTo(FieldValues, MaxSetLen)}

\* Mutant of getTrend: any rise or fall counts, without the dead-band of 1.
getTrendNoDeadBand(field, ws) ==
    IF Len(ws) < 2 THEN "stable"
    ELSE IF JsGt(ws[1][field], ws[2][field]) THEN "up"
    ELSE IF JsLt(ws[1][field], ws[2][field]) THEN "down"
    ELSE "stable"

\* getTrend(field), with the working set `data` it reads as ws.
getTrend(field, ws) ==
    IF Len(ws) < 2 THEN "stable"
    ELSE LET latest == ws[1][field]
             previous == ws[2][field]
         IN IF JsGt(latest, JsAdd(previous, Num(1))) THEN "up"
            ELSE IF JsLt(latest, JsSub(previous, Num(1))) THEN "down"
            ELSE "stable"

TrendCalls ==
    UNION {{[fn |-> "getTrend", field |-> f, readings |-> ws] : ws \in FieldSets(f)} :
              f \in Fields}

ComputeTrend ==
    /\ call.fn = "getTrend"
    /\ returned = NoResult
    /\ returned' = [fn |-> "getTrend", trend |-> getTrend(call.field, call.readings)]
    /\ UNCHANGED <<data, loading, error, lastUpdate, showAlert, alertMessage, view,
                   interval, reqs, last, unhandled, call>>

\* C15: with fewer than two readings the trend is stable; when the field is
\* present in the two most recent readings it is up iff latest > previous + 1,
\* down iff latest < previous - 1, and stable otherwise.
C15_TrendDeadBand ==
    returned.fn = "getTrend" =>
        LET ws == call.readings
            f == call.field
        IN /\ Len(ws) < 2 => returned.trend = "stable"
           /\ (Len(ws) >= 2 /\ Present(ws[1][f]) /\ Present(ws[2][f]))
                  => /\ returned.trend = "up" <=> ws[1][f].v > ws[2][f].v + 1
                     /\ returned.trend = "down" <=> ws[1][f].v < ws[2][f].v - 1
                     /\ returned.trend = "stable"
                            <=> /\ ws[1][f].v <= ws[2][f].v + 1
                                /\ ws[1][f].v >= ws[2][f].v - 1

\* The latest reading is more than 1 below the previous one: down.
C15_Witness ==
    /\ returned.fn = "getTrend"
    /\ Len(call.readings) >= 2
    /\ Present(call.readings[1][call.field]) /\ Present(call.readings[2][call.field])
    /\ call.readings[1][call.field].v < call.readings[2][call.field].v - 1
    /\ returned.trend = "down"

\* C16: when the field is absent (missing or null) in the most recent or in
\* the previous reading, the trend is stable.
C16_AbsentFieldTrendStable ==
    (/\ returned.fn = "getTrend"
     /\ Len(call.readings) >= 2
     /\ \/ ~Present(call.readings[1][call.field])
        \/ ~Present(call.readings[2][call.field]))
    => returned.trend = "stable"

\* A string value, as toFixed returns it.
Str(t) == [k |-> "str", v |-> t]

\* (num / den).toFixed(1) for a non-negative quotient: the nearest multiple
\* of 0.1, the larger one on a tie, written with one decimal.
ToFixed1(num, den) ==
    LET tenths == (20 * num + den) \div (2 * den)
    IN Str(ToString(tenths \div 10) \o "." \o ToString(tenths % 10))

\* data.map(d => d[field]).filter(v => v !== null && v !== undefined)
FieldOf(ws, field) == [i \in 1..Len(ws) |-> ws[i][field]]
NotNullish(v) == v.k \notin {"null", "undef"}

\* values.reduce((a, b) => a + b, 0)
RECURSIVE SumOf(_)
SumOf(values) == IF values = <<>> THEN 0 ELSE values[1].v + SumOf(Tail(values))

\* Math.min(...values) and Math.max(...values) of a non-empty list.
RECURSIVE MathMin(_)
MathMin(values) ==
    IF Len(values) = 1 THEN values[1].v
    ELSE LET m == MathMin(Tail(values)) IN IF values[1].v < m THEN values[1].v ELSE m
RECURSIVE MathMax(_)
MathMax(values) ==
    IF Len(values) = 1 THEN values[1].v
    ELSE LET m == MathMax(Tail(values)) IN IF values[1].v > m THEN values[1].v ELSE m

\* calculateStats(field), with the working set `data` it reads as ws.  With
\* no value left after the filter Math.min() is Infinity, Math.max() is
\* -Infinity and 0 / 0 is NaN.
calculateStats(field, ws) ==
    IF Len(ws) = 0 THEN [min |-> Num(0), max |-> Num(0), avg |-> Num(0)]
    ELSE LET values == SelectSeq(FieldOf(ws, field), NotNullish)
         IN IF values = <<>>
            THEN [min |-> Str("Infinity"), max |-> Str("-Infinity"), avg |-> Str("NaN")]
            ELSE [min |-> ToFixed1(MathMin(values), 1),
                  max |-> ToFixed1(MathMax(values), 1),
                  avg |-> ToFixed1(SumOf(values), Len(values))]

StatsCalls ==
    UNION {{[fn |-> "calculateStats", field |-> f, readings |-> ws] : ws \in FieldSets(f)} :
              f \in Fields}

ComputeStats ==
    /\ call.fn = "calculateStats"
    /\ returned = NoResult
    /\ returned' = [fn |-> "calculateStats",
                    stats |-> calculateStats(call.field, call.readings)]
    /\ UNCHANGED <<data, loading, error, lastUpdate, showAlert, alertMessage, view,
                   interval, reqs, last, unhandled, call>>

\* The values of field f that are present in ws.
PresentValues(ws, f) == {ws[i][f].v : i \in {j \in 1..Len(ws) : Present(ws[j][f])}}
PresentCount(ws, f) == Cardinality({j \in 1..Len(ws) : Present(ws[j][f])})
RECURSIVE PresentSum(_, _)
PresentSum(ws, f) ==
    IF ws = <<>> THEN 0
    ELSE (IF Present(ws[1][f]) THEN ws[1][f].v ELSE 0) + PresentSum(Tail(ws), f)

\* Statistics taken over the readings that have the field, to one decimal.
StatsOverPresent(ws, f) ==
    [min |-> ToFixed1(CHOOSE m \in PresentValues(ws, f) :
                          \A x \in PresentValues(ws, f) : m <= x, 1),
     max |-> ToFixed1(CHOOSE m \in PresentValues(ws, f) :
                          \A x \in PresentValues(ws, f) : m >= x, 1),
     avg |-> ToFixed1(PresentSum(ws, f), PresentCount(ws, f))]

\* C17: when no reading of the set has the field present (the set may be
\* non-empty) the statistics are min = max = avg = 0; otherwise they are
\* taken over the readings that have it.
C17_StatsZeroWhenFieldAbsent ==
    returned.fn = "calculateStats" =>
        IF PresentCount(call.readings, call.field) = 0
        THEN returned.stats = [min |-> Num(0), max |-> Num(0), avg |-> Num(0)]
        ELSE returned.stats = StatsOverPresent(call.readings, call.field)

\* -- exportToCSV

\* headers
Headers ==
    <<"Timestamp", "Device ID", "Soil Moisture (%)", "Temperature (°C)",
      "Humidity (%)", "Light (lux)">>

\* Array.prototype.join of strings with a separator.
RECURSIVE JoinWith(_, _)
JoinWith(cells, sep) ==
    IF cells = <<>> THEN ""
    ELSE IF Len(cells) = 1 THEN cells[1]
    ELSE cells[1] \o sep \o JoinWith(Tail(cells), sep)

\* Mutant of ElementText: String(x), which spells null and undefined out.
ElementTextSpelled(x) ==
    IF x.k = "num" THEN ToString(x.v)
    ELSE IF x.k = "null" THEN "null"
    ELSE "undefined"

\* The text join gives an array element: empty for null and undefined, the
\* decimal digits for a number.
ElementText(x) ==
    IF x.k = "num" THEN ToString(x.v)
    ELSE ""

\* new Date(ts).toLocaleString() in the en-US locale at UTC, for a timestamp
\* of ts seconds (below 60) into 1 January 1970.
ToLocaleString(ts) ==
    "1/1/1970, 12:00:" \o (IF ts < 10 THEN "0" ELSE "") \o ToString(ts) \o " AM"

\* The csvContent exportToCSV builds: none when the working set is empty.
exportToCSV(ws) ==
    IF Len(ws) = 0 THEN [exported |-> FALSE, content |-> ""]
    ELSE [exported |-> TRUE,
          content |->
              JoinWith(<<JoinWith(Headers, ",")>> \o
                       [i \in 1..Len(ws) |->
                           JoinWith(<<ToLocaleString(ws[i].timestamp),
                                      ws[i].device_id,
                                      ElementText(ws[i].soil_moisture),
                                      ElementText(ws[i].temperature),
                                      ElementText(ws[i].humidity),
                                      ElementText(ws[i].light_lux)>>, ",")],
                       "\n")]

\* The Export CSV button is pressed over a working set.
ExportCalls ==
    UNION {{[fn |-> "exportToCSV", readings |-> ws] : ws \in FieldSets(f)} : f \in Fields}

ExportCsv ==
    /\ call.fn = "exportToCSV"
    /\ returned = NoResult
    /\ returned' = [fn |-> "exportToCSV", csv |-> exportToCSV(call.readings)]
    /\ UNCHANGED <<data, loading, error, lastUpdate, showAlert, alertMessage, view,
                   interval, reqs, last, unhandled, call>>

\* The pieces of text s between occurrences of the one-character separator.
Split(s, sep) ==
    LET at == {i \in 1..Len(s) : SubSeq(s, i, i) = sep}
        Before(p) == Cardinality({q \in at : q < p})
        Nth(k) == CHOOSE p \in at : Before(p) = k - 1
    IN [k \in 1..(Cardinality(at) + 1) |->
           SubSeq(s, IF k = 1 THEN 1 ELSE Nth(k - 1) + 1,
                     IF k = Cardinality(at) + 1 THEN Len(s) ELSE Nth(k) - 1)]

\* The text a present measurement shows as itself and an absent one as
\* nothing.
RawOrEmpty(x) == IF Present(x) THEN ToString(x.v) ELSE ""

\* The last n pieces of a row.
LastCells(cells, n) == SubSeq(cells, Len(cells) - n + 1, Len(cells))

\* C19: the export text of a non-empty working set is the six-column header
\* line followed by exactly one line per reading, in working-set order, whose
\* measurement fields are the raw value when present and empty when absent
\* (missing or null).
C19_ExportIsHeaderThenOneRowPerReading ==
    (returned.fn = "exportToCSV" /\ call.readings # <<>>) =>
        LET lines == Split(returned.csv.content, "\n")
            ws == call.readings
        IN /\ returned.csv.exported
           /\ Len(lines) = Len(ws) + 1
           /\ lines[1] = "Timestamp,Device ID,Soil Moisture (%),Temperature (°C),Humidity (%),Light (lux)"
           /\ Len(Split(lines[1], ",")) = 6
           /\ \A i \in 1..Len(ws) :
                  LET cells == Split(lines[i + 1], ",")
                  IN /\ Len(cells) >= 6
                     /\ LastCells(cells, 4) =
                            <<RawOrEmpty(ws[i].soil_moisture), RawOrEmpty(ws[i].temperature),
                              RawOrEmpty(ws[i].humidity), RawOrEmpty(ws[i].light_lux)>>
                     /\ cells[Len(cells) - 4] = ws[i].device_id
                     /\ JoinWith(SubSeq(cells, 1, Len(cells) - 5), ",")
                            = ToLocaleString(ws[i].timestamp)

\* A working set of two readings, one with a null and one with a missing
\* field, has been exported.
C19_Witness ==
    /\ returned.fn = "exportToCSV"
    /\ Len(call.readings) = 2
    /\ \E f \in Fields : call.readings[1][f] = JsNull /\ call.readings[2][f] = Undefined
    /\ returned.csv.exported

RenderCalls == AlertCalls \cup TrendCalls \cup StatsCalls \cup ExportCalls

RenderInit ==
    /\ data = <<>>
    /\ loading = TRUE
    /\ error = Null
    /\ lastUpdate = 0
    /\ showAlert = FALSE
    /\ alertMessage = ""
    /\ view = "initial"
    /\ interval = FALSE
    /\ reqs = [i \in ReqIds |-> "idle"]
    /\ last = Saw(0, "nothing", 0, NoJson)
    /\ unhandled = FALSE
    /\ call \in RenderCalls
    /\ returned = NoResult

RenderNext ==
    \/ EvaluateAlerts
    \/ ComputeTrend
    \/ ComputeStats
    \/ ExportCsv

RenderSpec == RenderInit /\ [][RenderNext]_vars

\* When some reading has the field, the statistics are those of the readings
\* that have it (the part of C17 the code does satisfy).
StatsOverPresentReadings ==
    (returned.fn = "calculateStats" /\ PresentCount(call.readings, call.field) > 0)
    => returned.stats = StatsOverPresent(call.readings, call.field)
====
